---------------------------- MODULE Spec2Model ----------------------------
(***************************************************************************)
(* Model of server.js, the emote discovery service: the admission limiter  *)
(* (rateLimit), the Upstream Validator (validateEmoteFromRoblox), the      *)
(* Batch Refresh Engine (refreshEmoteCache) and the two route handlers     *)
(* GET /api/emotes and POST /api/submit-emote.                             *)
(*                                                                         *)
(* Node runs every handler on one thread: the code between two awaits is   *)
(* one atomic step, and a step that resolves the promise another function  *)
(* awaits runs that function's continuation in the same microtask drain.   *)
(* One action below is one such step.                                      *)
(*                                                                         *)
(* JS strings that the code inspects (ids, categories, query parameters)   *)
(* are sequences of one-character strings, so that the regular expression, *)
(* toLowerCase and parseInt are computed and not assumed.  Records keep    *)
(* the fields the handlers read or compare: name, description, price and   *)
(* creator of an asset are copied from upstream and never read again.      *)
(*                                                                         *)
(* Request parameters are strings or absent, as Express delivers a plain   *)
(* query parameter or a JSON string; under these nothing inside a          *)
(* handler's try block throws, so the 500 branches are not reached.  The   *)
(* limiter runs before every route and reads no cache state: SpecLimiter   *)
(* models it, and the requests of the other specifications are the ones    *)
(* it passed on.                                                           *)
(***************************************************************************)
EXTENDS Integers, Sequences, FiniteSets, TLC

(***************************************************************************)
(* Program constants.                                                      *)
(***************************************************************************)
RATE_LIMIT == 100
RATE_WINDOW == 60000
CACHE_DURATION == 300000
batchSize == 5
DEFAULT_LIMIT == 50
EMOTE_ANIMATION == 61

(***************************************************************************)
(* Bounds of the model.                                                    *)
(***************************************************************************)
NumSeeds == 6       \* entries of the seed list that are modelled
MaxQueries == 2     \* GET /api/emotes requests in one behaviour
MaxSubmits == 2     \* POST /api/submit-emote requests in one behaviour
MaxFine == 1        \* one-millisecond clock steps after a coarse step
MaxSnapshot == 3    \* longest snapshot the query specification starts from

(***************************************************************************)
(* JS values.                                                              *)
(***************************************************************************)
Undefined == <<"undefined">>
Null == [absent |-> TRUE]
Pending == [pending |-> TRUE]

Min(a, b) == IF a < b THEN a ELSE b
Max(a, b) == IF a > b THEN a ELSE b

Digits == <<"0", "1", "2", "3", "4", "5", "6", "7", "8", "9">>
UpperCase == <<"A", "D", "F", "G", "P", "N", "C", "E">>
LowerCase == <<"a", "d", "f", "g", "p", "n", "c", "e">>

IsDigit(c) == \E d \in DOMAIN Digits : Digits[d] = c
DigitValue(c) == (CHOOSE d \in DOMAIN Digits : Digits[d] = c) - 1

\* String.prototype.toLowerCase
LowerChar(c) ==
    IF \E u \in DOMAIN UpperCase : UpperCase[u] = c
    THEN LowerCase[CHOOSE u \in DOMAIN UpperCase : UpperCase[u] = c]
    ELSE c
toLowerCase(s) == [k \in DOMAIN s |-> LowerChar(s[k])]

\* /^\d+$/.test(s)
AllDigits(s) == Len(s) >= 1 /\ \A k \in DOMAIN s : IsDigit(s[k])

\* Array.prototype.slice(first, last) for 0 <= first and an integer last:
\* a negative last counts from the end.
slice(arr, first, last) ==
    LET stop == IF last < 0 THEN Max(Len(arr) + last, 0) ELSE Min(last, Len(arr))
    IN  SubSeq(arr, first + 1, stop)

(***************************************************************************)
(* The Candidate Registry's seed list (EMOTE_DATABASE at load).  The ids   *)
(* of the source are nine or ten digits long; the model shortens them to   *)
(* one digit and keeps the categories of the first entries.                *)
(***************************************************************************)
Gesture == <<"G", "e">>
Funny == <<"F", "u">>
Dance == <<"D", "a", "n", "c", "e">>
Action == <<"A", "c">>
Pose == <<"P", "o">>

SeedList ==
    << [id |-> <<"1">>, category |-> Gesture],
       [id |-> <<"2">>, category |-> Dance],
       [id |-> <<"3">>, category |-> Gesture],
       [id |-> <<"4">>, category |-> Funny],
       [id |-> <<"5">>, category |-> Dance],
       [id |-> <<"6">>, category |-> Action],
       [id |-> <<"7">>, category |-> Action],
       [id |-> <<"8">>, category |-> Pose] >>

Seeds == SubSeq(SeedList, 1, Min(NumSeeds, Len(SeedList)))
SeedIds == {Seeds[k].id : k \in DOMAIN Seeds}
NewId == <<"9">>
Ids == SeedIds \cup {NewId}

(***************************************************************************)
(* The marketplace.  market[id] is what the marketplace holds about an     *)
(* asset; Responses(m) are the ways one product-info call for such an      *)
(* asset can end.                                                          *)
(***************************************************************************)
MarketStates == {"forSale", "limited", "unavailable"}

Reply(type, sale, lim, uniq) ==
    [fetch |-> "resolved", ok |-> TRUE, json |-> TRUE, AssetTypeId |-> type,
     IsForSale |-> sale, IsLimited |-> lim, IsLimitedUnique |-> uniq]
Failure(how) ==
    [fetch |-> IF how \in {"aborted", "rejected"} THEN how ELSE "resolved",
     ok |-> how # "status", json |-> how # "body", AssetTypeId |-> 0,
     IsForSale |-> FALSE, IsLimited |-> FALSE, IsLimitedUnique |-> FALSE]

Responses(m) ==
    CASE m = "forSale" -> {Reply(EMOTE_ANIMATION, TRUE, FALSE, FALSE)}
      [] m = "limited" -> {Reply(EMOTE_ANIMATION, TRUE, TRUE, FALSE),
                           Reply(EMOTE_ANIMATION, TRUE, FALSE, TRUE)}
      [] OTHER -> {Failure("aborted"), Failure("rejected"), Failure("status"),
                   Failure("body"),
                   Reply(EMOTE_ANIMATION, FALSE, FALSE, FALSE),
                   Reply(8, TRUE, FALSE, FALSE)}

\* The ways a call can end, by name, and the response of each: an asset
\* that is for sale always answers, a limited one answers as limited or as
\* limited-unique, and for any other asset the call fails or is refused.
ResponseKinds == {"aborted", "rejected", "status", "body", "type", "sale"}
ResponseOfKind(m, h) ==
    CASE m = "forSale" -> Reply(EMOTE_ANIMATION, TRUE, FALSE, FALSE)
      [] m = "limited" -> IF h \in {"aborted", "status", "type"}
                          THEN Reply(EMOTE_ANIMATION, TRUE, TRUE, FALSE)
                          ELSE Reply(EMOTE_ANIMATION, TRUE, FALSE, TRUE)
      [] OTHER -> CASE h = "type" -> Reply(8, TRUE, FALSE, FALSE)
                    [] h = "sale" -> Reply(EMOTE_ANIMATION, FALSE, FALSE, FALSE)
                    [] OTHER -> Failure(h)

\* An exception in flight: a rejected promise, a throw.
Thrown == [thrown |-> TRUE]

\* The try block of validateEmoteFromRoblox: the await of fetch throws when
\* the call is aborted by the timer or rejected by the network, a status
\* that is not ok is thrown as an Error, the await of response.json() throws
\* on an unparsable body; an emote for sale is returned, and anything else
\* falls through to the return null after the catch.
tryBlock(emoteId, r) ==
    IF r.fetch # "resolved" THEN Thrown
    ELSE IF ~r.ok THEN Thrown
    ELSE IF ~r.json THEN Thrown
    ELSE IF r.AssetTypeId = EMOTE_ANIMATION /\ r.IsForSale
         THEN [id |-> emoteId,
               canResell |-> r.IsForSale /\ ~r.IsLimited /\ ~r.IsLimitedUnique]
         ELSE Null

\* validateEmoteFromRoblox without its catch.
validateEmoteFromRobloxUncaught(emoteId, r) == tryBlock(emoteId, r)

\* validateEmoteFromRoblox: the catch logs what was thrown and the function
\* returns null.
validateEmoteFromRoblox(emoteId, r) ==
    LET v == tryBlock(emoteId, r)
    IN  IF v = Thrown THEN Null ELSE v

\* WithCategory with the default category for the given one.
WithCategoryDefault(validated, category) ==
    [id |-> validated.id, canResell |-> validated.canResell,
     category |-> Action]

\* validated.category = ...
WithCategory(validated, category) ==
    [id |-> validated.id, canResell |-> validated.canResell, category |-> category]

(***************************************************************************)
(* State.                                                                  *)
(***************************************************************************)
Clients == {"ipA", "ipB"}
Queries == 1 .. MaxQueries
Submits == 1 .. MaxSubmits
Boot == 0                       \* the app.listen callback
Owners == {Boot} \cup Queries   \* who awaits a refresh pass

VARIABLES
    now,              \* Date.now()
    market,           \* the marketplace, per asset id
    rateLimitMap,     \* client -> {count, resetTime} or NoEntry
    admission,        \* what rateLimit did with the latest request
    EMOTE_DATABASE,   \* the Candidate Registry
    emoteCache,       \* the snapshot
    lastCacheUpdate,
    refresh,          \* owner -> the locals of its refreshEmoteCache call
    query,            \* GET /api/emotes requests
    submit            \* POST /api/submit-emote requests

vars == <<now, market, rateLimitMap, admission, EMOTE_DATABASE, emoteCache,
          lastCacheUpdate, refresh, query, submit>>

NoEntry == [count |-> 0, resetTime |-> 0]
NoAdmission == [ip |-> "", status |-> 0]
NoResponse == [status |-> 0]

\* The process starts long after the epoch: the never-refreshed cache
\* (lastCacheUpdate = 0) is older than CACHE_DURATION.
BootTime == CACHE_DURATION + RATE_WINDOW

IdleRefresh ==
    [pc |-> "idle", i |-> 0, batch |-> <<>>, results |-> <<>>, validEmotes |-> <<>>]
IdleQuery ==
    [pc |-> "idle", category |-> Undefined, limit |-> Undefined,
     resellable_only |-> Undefined, expired |-> FALSE, empty |-> FALSE,
     res |-> NoResponse]
IdleSubmit ==
    [pc |-> "idle", emoteId |-> Undefined, category |-> Undefined, res |-> NoResponse]

(***************************************************************************)
(* refreshEmoteCache.                                                      *)
(***************************************************************************)
\* BeginBatch with the accumulator emptied for every batch.
BeginBatchFresh(r, i) ==
    LET batch == slice(EMOTE_DATABASE, i, i + batchSize)
    IN  [r EXCEPT !.pc = "fetch", !.i = i, !.batch = batch,
                  !.results = [k \in DOMAIN batch |-> Pending],
                  !.validEmotes = <<>>]

\* One pass of the for loop's head and body up to the await of Promise.all:
\* the batch is sliced and every validator call of it is issued.
BeginBatch(r, i) ==
    LET batch == slice(EMOTE_DATABASE, i, i + batchSize)
    IN  [r EXCEPT !.pc = "fetch", !.i = i, !.batch = batch,
                  !.results = [k \in DOMAIN batch |-> Pending]]

\* The call of refreshEmoteCache up to its first await.
BeginRefresh == BeginBatch([IdleRefresh EXCEPT !.validEmotes = <<>>], 0)

\* batch.map's callback after its await: the category comes from the entry.
\* An exception of the validator would reject the callback's promise.
BatchResult(emoteEntry, resp) ==
    LET validated == validateEmoteFromRoblox(emoteEntry.id, resp)
    IN  IF validated = Thrown THEN Thrown
        ELSE IF validated # Null THEN WithCategory(validated, emoteEntry.category)
        ELSE Null

\* AllSettled for a promise that never resolves.
AllSettledNever(results) == FALSE

\* AllSettled for a race: one call of the batch is enough.
AllSettledAny(results) == \E j \in DOMAIN results : results[j] # Pending

\* await Promise.all(batchPromises) resolves when no call of the batch is out.
AllSettled(results) == \A j \in DOMAIN results : results[j] # Pending

\* Promise.all rejects as soon as one of its promises does.
AnyRejected(results) == \E j \in DOMAIN results : results[j] = Thrown

\* batchResults.filter(Boolean)
filterBoolean(batchResults) == SelectSeq(batchResults, LAMBDA v : v # Null)

\* MoreBatches with the registry's last entry left out.
MoreBatchesShort(i) == i + batchSize < Len(EMOTE_DATABASE) - 1

\* The condition of the pacing delay, which is also that of another batch.
MoreBatches(i) == i + batchSize < Len(EMOTE_DATABASE)

\* SnapshotAfterBatch with the assignment inside the loop.
SnapshotAfterBatchEarly(cache, validEmotes, finished) == validEmotes

\* What readers see after a batch: the assignment to emoteCache is after the loop.
SnapshotAfterBatch(cache, validEmotes, finished) ==
    IF finished THEN validEmotes ELSE cache

(***************************************************************************)
(* GET /api/emotes.                                                        *)
(***************************************************************************)
\* NeedsRefresh without the test for an empty snapshot.
NeedsRefreshAgeOnly(t, last, cache) == t - last > CACHE_DURATION

\* NeedsRefresh with the comparison turned around.
NeedsRefreshInverted(t, last, cache) == t - last < CACHE_DURATION \/ Len(cache) = 0

\* Date.now() - lastCacheUpdate > CACHE_DURATION || emoteCache.length === 0
NeedsRefresh(t, last, cache) == t - last > CACHE_DURATION \/ Len(cache) = 0

\* parseInt(s) of a string: an optional sign, then the leading digits.
RECURSIVE LeadingDigits(_)
LeadingDigits(s) ==
    IF s = <<>> \/ ~IsDigit(Head(s)) THEN <<>>
    ELSE <<Head(s)>> \o LeadingDigits(Tail(s))
RECURSIVE DecimalValue(_)
DecimalValue(ds) ==
    IF ds = <<>> THEN 0
    ELSE 10 * DecimalValue(SubSeq(ds, 1, Len(ds) - 1)) + DigitValue(ds[Len(ds)])
parseInt(s) ==
    LET signed == s # <<>> /\ Head(s) \in {"-", "+"}
        ds == LeadingDigits(IF signed THEN Tail(s) ELSE s)
    IN  IF ds = <<>> THEN [nan |-> TRUE, val |-> 0]
        ELSE [nan |-> FALSE,
              val |-> IF signed /\ Head(s) = "-" THEN 0 - DecimalValue(ds)
                      ELSE DecimalValue(ds)]

\* the destructuring default: limit = 50
LimitOf(limit) == IF limit = Undefined THEN [nan |-> FALSE, val |-> DEFAULT_LIMIT]
                  ELSE parseInt(limit)

\* if (limit) filteredEmotes = filteredEmotes.slice(0, parseInt(limit))
\* the number 50 and every non-empty string are truthy; slice reads NaN as 0.
ApplyLimit(emotes, limit) ==
    IF limit = <<>> THEN emotes
    ELSE LET n == LimitOf(limit)
         IN  slice(emotes, 0, IF n.nan THEN 0 ELSE n.val)

True == <<"t", "r", "u", "e">>
False == <<"f", "a", "l", "s", "e">>

\* ApplyCategory without toLowerCase.
ApplyCategoryExact(emotes, category) ==
    IF category = Undefined \/ category = <<>> THEN emotes
    ELSE SelectSeq(emotes, LAMBDA e : e.category = category)

ApplyCategory(emotes, category) ==
    IF category = Undefined \/ category = <<>> THEN emotes
    ELSE SelectSeq(emotes,
                   LAMBDA e : toLowerCase(e.category) = toLowerCase(category))

ApplyResellable(emotes, resellable_only) ==
    IF resellable_only = True THEN SelectSeq(emotes, LAMBDA e : e.canResell)
    ELSE emotes

\* the filters of the handler, in its order
filteredEmotes(cache, category, limit, resellable_only) ==
    ApplyLimit(ApplyResellable(ApplyCategory(cache, category), resellable_only),
               limit)

\* the catch of the handler: res.status(500).json({...})
InternalError == [status |-> 500, emotes |-> <<>>]

\* res.json({...})
QueryResponse(cache, last, q) ==
    LET emotes == filteredEmotes(cache, q.category, q.limit, q.resellable_only)
    IN  [status |-> 200, emotes |-> emotes, total |-> Len(emotes),
         cached |-> Len(cache), lastUpdated |-> last]


(***************************************************************************)
(* The clock.  It moves by one millisecond or by a whole period d; after a *)
(* coarse step at most MaxFine fine steps follow, and it stops at horizon. *)
(***************************************************************************)
FineSteps == (now - BootTime) % RATE_WINDOW

Tick(d, horizon) ==
    /\ now + d <= horizon
    /\ d = 1 => FineSteps < MaxFine
    /\ now' = now + d
    /\ UNCHANGED <<market, rateLimitMap, admission, EMOTE_DATABASE, emoteCache,
                   lastCacheUpdate, refresh, query, submit>>

(***************************************************************************)
(* app.listen's callback: the initial cache load.                          *)
(***************************************************************************)
Listen ==
    /\ refresh[Boot].pc = "idle"
    /\ refresh' = [refresh EXCEPT ![Boot] = BeginRefresh]
    /\ UNCHANGED <<now, market, rateLimitMap, admission, EMOTE_DATABASE,
                   emoteCache, lastCacheUpdate, query, submit>>

Listening == refresh[Boot].pc # "idle"

(***************************************************************************)
(* The validator calls K of owner p's current batch end, call k with       *)
(* respOf[k].  When no call of the batch is left, Promise.all resolves and *)
(* the pass goes on in the same step: it pushes the batch's assets and     *)
(* either starts the pacing delay or leaves the loop, installs the         *)
(* snapshot and returns to the handler that awaits it, which then answers. *)
(* Were a call to throw, Promise.all and with it the pass would reject at  *)
(* once: the handler's catch answers 500, and the listen callback has no   *)
(* catch.                                                                  *)
(***************************************************************************)
FetchDone(p, K, respOf) ==
    LET r == refresh[p]
    IN  /\ r.pc = "fetch"
        /\ K # {}
        /\ \A k \in K : /\ k \in DOMAIN r.results
                        /\ r.results[k] = Pending
                        /\ respOf[k] \in Responses(market[r.batch[k].id])
        /\ \E results \in {[k \in DOMAIN r.results |->
                                IF k \in K THEN BatchResult(r.batch[k], respOf[k])
                                ELSE r.results[k]]} :
              LET rejected == AnyRejected(results)
                  allDone == ~rejected /\ AllSettled(results)
                  validEmotes == r.validEmotes \o filterBoolean(results)
                  finished == allDone /\ ~MoreBatches(r.i)
              IN  /\ refresh' = [refresh EXCEPT ![p] =
                          IF rejected THEN [IdleRefresh EXCEPT !.pc = "failed"]
                          ELSE IF ~allDone THEN [r EXCEPT !.results = results]
                          ELSE IF finished THEN [IdleRefresh EXCEPT !.pc = "done"]
                          ELSE [r EXCEPT !.pc = "delay", !.results = results,
                                         !.validEmotes = validEmotes]]
                  /\ emoteCache' =
                          IF allDone
                          THEN SnapshotAfterBatch(emoteCache, validEmotes, finished)
                          ELSE emoteCache
                  /\ lastCacheUpdate' = IF finished THEN now ELSE lastCacheUpdate
                  /\ query' =
                          IF rejected /\ p \in Queries
                          THEN [query EXCEPT ![p].pc = "done", ![p].res = InternalError]
                          ELSE IF finished /\ p \in Queries
                          THEN [query EXCEPT ![p].pc = "done",
                                  ![p].res = QueryResponse(emoteCache', lastCacheUpdate',
                                                           query[p])]
                          ELSE query
        /\ UNCHANGED <<now, market, rateLimitMap, admission, EMOTE_DATABASE, submit>>

\* The pacing timer fires: i += batchSize, and the loop's test holds because
\* MoreBatches held before the delay and the registry never shrinks.
DelayDone(p) ==
    /\ refresh[p].pc = "delay"
    /\ refresh' = [refresh EXCEPT ![p] = BeginBatch(refresh[p], refresh[p].i + batchSize)]
    /\ UNCHANGED <<now, market, rateLimitMap, admission, EMOTE_DATABASE,
                   emoteCache, lastCacheUpdate, query, submit>>

\* The calls of owner p's batch that are still out, and one way each can end.
PendingCalls(p) == {k \in DOMAIN refresh[p].results : refresh[p].results[k] = Pending}
ResponseAs(p, k, h) == ResponseOfKind(market[refresh[p].batch[k].id], h)

(***************************************************************************)
(* GET /api/emotes, request q, up to its await or its answer.  expired and *)
(* empty keep what the request found on arrival.                           *)
(***************************************************************************)
GetEmotes(q, category, limit, resellable_only) ==
    LET arrived == [query[q] EXCEPT !.category = category, !.limit = limit,
                                    !.resellable_only = resellable_only,
                                    !.expired = now - lastCacheUpdate > CACHE_DURATION,
                                    !.empty = emoteCache = <<>>]
    IN  /\ Listening
        /\ query[q].pc = "idle"
        /\ \A j \in 1 .. q - 1 : query[j].pc # "idle"
        /\ IF NeedsRefresh(now, lastCacheUpdate, emoteCache)
           THEN /\ query' = [query EXCEPT ![q] = [arrived EXCEPT !.pc = "refreshing"]]
                /\ refresh' = [refresh EXCEPT ![q] = BeginRefresh]
           ELSE /\ query' = [query EXCEPT ![q] =
                        [arrived EXCEPT !.pc = "done",
                            !.res = QueryResponse(emoteCache, lastCacheUpdate, arrived)]]
                /\ UNCHANGED refresh
        /\ UNCHANGED <<now, market, rateLimitMap, admission, EMOTE_DATABASE,
                       emoteCache, lastCacheUpdate, submit>>

(***************************************************************************)
(* POST /api/submit-emote, request s.                                      *)
(***************************************************************************)
\* EMOTE_DATABASE.find(e => e.id === emoteId)
Known(emoteId) == {k \in DOMAIN EMOTE_DATABASE : EMOTE_DATABASE[k].id = emoteId}
find(emoteId) == EMOTE_DATABASE[CHOOSE k \in Known(emoteId) : \A j \in Known(emoteId) : k <= j]

\* the destructuring default: category = 'Action'
CategoryOf(category) == IF category = Undefined THEN Action ELSE category

\* The handler up to its await of the validator, or its early answer.
SubmitEmote(s, emoteId, category) ==
    /\ Listening
    /\ submit[s].pc = "idle"
    /\ \A j \in 1 .. s - 1 : submit[j].pc # "idle"
    /\ submit' = [submit EXCEPT ![s] =
            IF emoteId = Undefined \/ emoteId = <<>> \/ ~AllDigits(emoteId)
            THEN [pc |-> "done", emoteId |-> emoteId, category |-> CategoryOf(category),
                  res |-> [status |-> 400, message |-> "Valid emote ID required",
                           emote |-> Null]]
            ELSE IF Known(emoteId) # {}
            THEN [pc |-> "done", emoteId |-> emoteId, category |-> CategoryOf(category),
                  res |-> [status |-> 200, message |-> "Emote already in database",
                           emote |-> find(emoteId)]]
            ELSE [pc |-> "validate", emoteId |-> emoteId,
                  category |-> CategoryOf(category), res |-> NoResponse]]
    /\ UNCHANGED <<now, market, rateLimitMap, admission, EMOTE_DATABASE, emoteCache,
                   lastCacheUpdate, refresh, query>>

\* DatabaseAfter with the push before the test of the validator's answer.
DatabaseAfterAlways(database, validatedEmote, emoteId, category) ==
    Append(database, [id |-> emoteId, category |-> category])

\* DatabaseAfter without the push.
DatabaseAfterNever(database, validatedEmote, emoteId, category) == database

\* The registry after the validator's answer: only a validated id is added.
DatabaseAfter(database, validatedEmote, emoteId, category) ==
    IF validatedEmote # Null
    THEN Append(database, [id |-> emoteId, category |-> category])
    ELSE database

\* The handler after its await: the validator's answer is in.  Were the
\* validator to throw, the handler's catch would answer 500.
SubmitValidated(s, resp) ==
    LET r == submit[s]
        validatedEmote == validateEmoteFromRoblox(r.emoteId, resp)
        thrown == validatedEmote = Thrown
    IN  /\ r.pc = "validate"
        /\ resp \in Responses(market[r.emoteId])
        /\ EMOTE_DATABASE' = IF thrown THEN EMOTE_DATABASE
                             ELSE DatabaseAfter(EMOTE_DATABASE, validatedEmote,
                                                r.emoteId, r.category)
        /\ emoteCache' = IF ~thrown /\ validatedEmote # Null
                         THEN Append(emoteCache, WithCategory(validatedEmote, r.category))
                         ELSE emoteCache
        /\ submit' = [submit EXCEPT ![s].pc = "done", ![s].res =
                IF thrown
                THEN [status |-> 500, message |-> "Internal server error",
                      emote |-> Null]
                ELSE IF validatedEmote # Null
                THEN [status |-> 200, message |-> "Emote added successfully",
                      emote |-> WithCategory(validatedEmote, r.category)]
                ELSE [status |-> 400, message |-> "Invalid emote ID or not for sale",
                      emote |-> Null]]
        /\ UNCHANGED <<now, market, rateLimitMap, admission, lastCacheUpdate,
                       refresh, query>>

(***************************************************************************)
(* The specification of the cache: the initial load, two queries and two   *)
(* submissions in any interleaving.  The marketplace is one of a few       *)
(* profiles and the calls of a batch are answered in one step (the steps   *)
(* in between change only the pass's own results), a refused one with a   *)
(* status that is not ok; SpecRefresh and SpecUpstream lift these          *)
(* restrictions.  Queries ask for category Action    *)
(* and submissions leave the category to its default, which is Action.     *)
(***************************************************************************)
SeedProfiles == {"noneAvailable", "mixed"}
SeedMarket(profile, id) ==
    CASE profile = "noneAvailable" -> "unavailable"
      [] OTHER -> IF id \in {<<"1">>, <<"5">>, <<"6">>} THEN "forSale"
                  ELSE IF id = <<"2">> THEN "limited" ELSE "unavailable"
SpecMarkets ==
    {[id \in Ids |-> IF id = NewId THEN n ELSE SeedMarket(p, id)] :
        p \in SeedProfiles, n \in {"forSale", "unavailable"}}

InitCommon ==
    /\ now = BootTime
    /\ rateLimitMap = [ip \in Clients |-> NoEntry]
    /\ admission = NoAdmission
    /\ EMOTE_DATABASE = Seeds
    /\ emoteCache = <<>>
    /\ lastCacheUpdate = 0
    /\ refresh = [p \in Owners |-> IdleRefresh]
    /\ query = [q \in Queries |-> IdleQuery]
    /\ submit = [s \in Submits |-> IdleSubmit]

Init == InitCommon /\ market \in SpecMarkets

SpecCategories == {Action}
SpecKinds == {"status"}
SubmitIds == {NewId, <<"1">>, <<"9", "a">>}
SubmitCategories == {Undefined}
CacheHorizon == BootTime + CACHE_DURATION + MaxFine

Next ==
    \/ Listen
    \/ \E p \in Owners : \E h \in SpecKinds :
          FetchDone(p, PendingCalls(p), [k \in PendingCalls(p) |-> ResponseAs(p, k, h)])
    \/ \E p \in Owners : DelayDone(p)
    \/ \E q \in Queries : \E c \in SpecCategories : GetEmotes(q, c, Undefined, Undefined)
    \/ \E s \in Submits : \E id \in SubmitIds : \E c \in SubmitCategories :
          SubmitEmote(s, id, c)
    \/ \E s \in Submits : submit[s].pc = "validate" /\
          \E resp \in Responses(market[submit[s].emoteId]) : SubmitValidated(s, resp)
    \/ \E d \in {1, CACHE_DURATION} : Tick(d, CacheHorizon)

Spec == Init /\ [][Next]_vars

(***************************************************************************)
(* The specification of one refresh pass: the initial load over the seed   *)
(* list, with every marketplace over the seeds, the calls of a batch       *)
(* ending one by one in any order and each in any way the marketplace      *)
(* allows.                                                                 *)
(***************************************************************************)
InitRefresh ==
    /\ InitCommon
    /\ market \in [Ids -> MarketStates]
    /\ market[NewId] = "forSale"

NextRefresh ==
    \/ Listen
    \/ \E k \in PendingCalls(Boot) :
          \E resp \in Responses(market[refresh[Boot].batch[k].id]) :
              FetchDone(Boot, {k}, [j \in {k} |-> resp])
    \/ DelayDone(Boot)
    \/ Tick(1, CacheHorizon)

SpecRefresh == InitRefresh /\ [][NextRefresh]_vars

(***************************************************************************)
(* The specification of the query filters: a fresh snapshot of one to      *)
(* MaxSnapshot assets, each of any category and resellability, and one     *)
(* query with any filter.                                                  *)
(***************************************************************************)
SnapshotCategories == {Dance, toLowerCase(Dance), Funny}
AssetAt(k, category, canResell) ==
    [id |-> <<Digits[k + 1]>>, canResell |-> canResell, category |-> category]
Snapshots ==
    UNION {{[k \in 1 .. n |-> AssetAt(k, c[k], b[k])] :
                c \in [1 .. n -> SnapshotCategories], b \in [1 .. n -> BOOLEAN]} :
           n \in 1 .. MaxSnapshot}

DANCE == <<"D", "A", "N", "C", "E">>
QueryCategories == {Undefined, <<>>, Dance, DANCE, Funny, Pose}
QueryLimits ==
    {Undefined, <<>>, <<"0">>, <<"1">>, <<"2">>, <<"1", "0">>, <<"-", "1">>,
     <<"-", "2">>, <<"a", "b", "c">>}
QueryResellable == {Undefined, True, False}

InitQuery ==
    /\ now = BootTime
    /\ market = [id \in Ids |-> "forSale"]
    /\ rateLimitMap = [ip \in Clients |-> NoEntry]
    /\ admission = NoAdmission
    /\ EMOTE_DATABASE = Seeds
    /\ emoteCache \in Snapshots
    /\ lastCacheUpdate = BootTime
    /\ refresh = [p \in Owners |-> IF p = Boot THEN [IdleRefresh EXCEPT !.pc = "done"]
                                   ELSE IdleRefresh]
    /\ query = [q \in Queries |-> IdleQuery]
    /\ submit = [s \in Submits |-> IdleSubmit]

NextQuery ==
    \E c \in QueryCategories : \E l \in QueryLimits : \E r \in QueryResellable :
        GetEmotes(1, c, l, r)

SpecQuery == InitQuery /\ [][NextQuery]_vars

(***************************************************************************)
(* rateLimit, the middleware in front of every route.                      *)
(***************************************************************************)
\* WindowExpired with >= for >.
WindowExpiredAtBoundary(t, resetTime) == t >= resetTime

\* OverLimit with > for >=.
OverLimitLate(count) == count > RATE_LIMIT

\* userData.count >= RATE_LIMIT
OverLimit(count) == count >= RATE_LIMIT

\* now > userData.resetTime
WindowExpired(t, resetTime) == t > resetTime

rateLimit(ip) ==
    LET userData == rateLimitMap[ip]
    IN  /\ IF userData = NoEntry \/ WindowExpired(now, userData.resetTime)
           THEN /\ rateLimitMap' = [rateLimitMap EXCEPT ![ip] =
                        [count |-> 1, resetTime |-> now + RATE_WINDOW]]
                /\ admission' = [ip |-> ip, status |-> 200]
           ELSE IF OverLimit(userData.count)
           THEN /\ admission' = [ip |-> ip, status |-> 429]
                /\ UNCHANGED rateLimitMap
           ELSE /\ rateLimitMap' = [rateLimitMap EXCEPT ![ip].count = userData.count + 1]
                /\ admission' = [ip |-> ip, status |-> 200]
        /\ UNCHANGED <<now, market, EMOTE_DATABASE, emoteCache, lastCacheUpdate,
                       refresh, query, submit>>

(***************************************************************************)
(* The specification of the limiter: two clients, any number of requests,  *)
(* and a clock that reaches the end of a window and the millisecond after. *)
(***************************************************************************)
MaxWindows == 1
LimiterHorizon == BootTime + MaxWindows * RATE_WINDOW + MaxFine

InitLimiter == InitCommon /\ market = [id \in Ids |-> "forSale"]

NextLimiter ==
    \/ \E ip \in Clients : rateLimit(ip)
    \/ \E d \in {1, RATE_WINDOW} : Tick(d, LimiterHorizon)

SpecLimiter == InitLimiter /\ [][NextLimiter]_vars

(***************************************************************************)
(* The specification of the upstream calls: the initial load and one       *)
(* query, with the pass it begins; every call ends on its own, in any      *)
(* order within its batch and in any of the ways the marketplace allows.   *)
(***************************************************************************)
UpstreamOwners == {Boot, 1}

NextUpstream ==
    \/ Listen
    \/ \E p \in UpstreamOwners : \E k \in PendingCalls(p) :
          \E resp \in Responses(market[refresh[p].batch[k].id]) :
              FetchDone(p, {k}, [j \in {k} |-> resp])
    \/ \E p \in UpstreamOwners : DelayDone(p)
    \/ \E c \in SpecCategories : GetEmotes(1, c, Undefined, Undefined)
    \/ \E d \in {1, CACHE_DURATION} : Tick(d, CacheHorizon)

SpecUpstream == Init /\ [][NextUpstream]_vars

(***************************************************************************)
(* The cache under fairness: the initial load, one query and one           *)
(* submission of a new id, which may extend the registry under a pass.     *)
(* Every validator call that is out returns in the end (the calls of a     *)
(* batch together, as in Spec), and every pacing timer fires.              *)
(***************************************************************************)
BatchReturns(p) ==
    \E h \in SpecKinds :
        FetchDone(p, PendingCalls(p), [k \in PendingCalls(p) |-> ResponseAs(p, k, h)])

NextLive ==
    \/ Listen
    \/ \E p \in UpstreamOwners : BatchReturns(p)
    \/ \E p \in UpstreamOwners : DelayDone(p)
    \/ \E c \in SpecCategories : GetEmotes(1, c, Undefined, Undefined)
    \/ \E c \in SubmitCategories : SubmitEmote(1, NewId, c)
    \/ submit[1].pc = "validate" /\
          \E resp \in Responses(market[NewId]) : SubmitValidated(1, resp)
    \/ \E d \in {1, CACHE_DURATION} : Tick(d, CacheHorizon)

Fairness ==
    \A p \in UpstreamOwners : WF_vars(BatchReturns(p)) /\ WF_vars(DelayDone(p))

SpecLive == Init /\ [][NextLive]_vars /\ Fairness

(***************************************************************************)
(* The specification of submissions: the initial load and two submissions, *)
(* each with any of the ids (new, known and validated, known and rejected, *)
(* malformed, absent) and any of the categories, in any interleaving with  *)
(* each other and with the batches of the load.                            *)
(***************************************************************************)
AnyIds == {NewId, <<"1">>, <<"3">>, <<"9", "a">>, Undefined}
AnyCategories == {Undefined, Dance, Pose}

NextSubmit ==
    \/ Listen
    \/ \E h \in SpecKinds :
          FetchDone(Boot, PendingCalls(Boot),
                    [k \in PendingCalls(Boot) |-> ResponseAs(Boot, k, h)])
    \/ DelayDone(Boot)
    \/ \E s \in Submits : \E id \in AnyIds : \E c \in AnyCategories :
          SubmitEmote(s, id, c)
    \/ \E s \in Submits : submit[s].pc = "validate" /\
          \E resp \in Responses(market[submit[s].emoteId]) : SubmitValidated(s, resp)
    \/ Tick(1, CacheHorizon)

SpecSubmit == Init /\ [][NextSubmit]_vars

(***************************************************************************)
(* Properties.                                                             *)
(***************************************************************************)
Refreshing(p) == refresh[p].pc \in {"fetch", "delay"}
IsPrefix(a, b) == Len(a) <= Len(b) /\ SubSeq(b, 1, Len(a)) = a

\* C1: single-refresh collapsing: at most one refresh pass that a stale query
\* started is in flight in every reachable state, however many queries found
\* the cache stale before a refresh completed.
SingleRefreshPass == Cardinality({q \in Queries : Refreshing(q)}) <= 1

\* C2: atomic snapshot swap: the snapshot changes only by the swap of a pass
\* that has validated its last batch, which installs the pass's whole
\* accumulator, or by a submission's append; and a query that answers returns
\* the filter of the snapshot as it is then, so never a part-built accumulator.
AtomicSnapshotSwap ==
    [][/\ emoteCache' # emoteCache =>
            \/ \E p \in Owners :
                  /\ refresh[p].pc = "fetch"
                  /\ refresh'[p].pc = "done"
                  /\ refresh[p].i + batchSize >= Len(EMOTE_DATABASE)
                  /\ IsPrefix(refresh[p].validEmotes, emoteCache')
                  /\ Len(emoteCache') <= Len(refresh[p].validEmotes) + Len(refresh[p].batch)
            \/ \E s \in Submits :
                  /\ submit[s].pc = "validate"
                  /\ submit'[s].pc = "done"
                  /\ emoteCache' = Append(emoteCache, submit'[s].res.emote)
       /\ \A q \in Queries :
            query[q].pc # "done" /\ query'[q].pc = "done" =>
                /\ query'[q].res.emotes =
                       filteredEmotes(emoteCache', query'[q].category, query'[q].limit,
                                      query'[q].resellable_only)
                /\ query'[q].res.cached = Len(emoteCache')]_vars

\* C2 witness: a query has answered from a whole snapshot while another pass
\* holds a part-built accumulator that differs from the snapshot.
AnsweredBesidePartialPass ==
    \E q \in Queries : \E p \in Owners :
        /\ query[q].pc = "done"
        /\ query[q].res.cached = Len(emoteCache)
        /\ refresh[p].pc = "delay"
        /\ refresh[p].validEmotes # <<>>
        /\ refresh[p].validEmotes # emoteCache

\* C3: staleness trigger: a query that arrived when the snapshot was older
\* than 5 minutes or empty has not answered before its own refresh pass, begun
\* on its arrival, has completed; a query that arrived with a non-empty
\* snapshot of age <= TTL answered without starting a pass.
StalenessTrigger ==
    \A q \in Queries :
        LET stale == query[q].expired \/ query[q].empty
        IN  /\ query[q].pc = "refreshing" =>
                stale /\ Refreshing(q) /\ query[q].res = NoResponse
            /\ query[q].pc = "done" =>
                /\ query[q].res.status = 200
                /\ stale => refresh[q].pc = "done"
                /\ ~stale => refresh[q].pc = "idle"

\* C3 witness: one query answered without a pass, another after its own pass
\* that it began because the snapshot had aged past the TTL.
FreshAndStaleAnswered ==
    \E q1, q2 \in Queries :
        /\ query[q1].pc = "done" /\ refresh[q1].pc = "idle"
        /\ query[q2].pc = "done" /\ refresh[q2].pc = "done"
        /\ query[q2].expired /\ ~query[q2].empty

\* C4: admission limit: a client's request with no window, or arriving after
\* its window expired (now > resetTime), is admitted and opens a window with
\* count 1 and boundary now + 60s; inside a window a request is admitted while
\* fewer than 100 were, and counted; every further one is rejected with 429.
Requested(ip) ==
    /\ now' = now
    /\ admission'.ip = ip
    /\ <<admission, rateLimitMap>>' # <<admission, rateLimitMap>>

AdmissionLimit ==
    [][\A ip \in Clients :
        Requested(ip) =>
            LET entry == rateLimitMap[ip]
            IN  IF entry = NoEntry \/ now > entry.resetTime
                THEN /\ admission'.status = 200
                     /\ rateLimitMap'[ip] = [count |-> 1, resetTime |-> now + 60000]
                ELSE IF entry.count < 100
                THEN /\ admission'.status = 200
                     /\ rateLimitMap'[ip] = [entry EXCEPT !.count = entry.count + 1]
                ELSE /\ entry.count = 100
                     /\ admission'.status = 429
                     /\ rateLimitMap'[ip] = entry]_vars

\* C4 witness: a client's 101st request of a window has been rejected, while
\* the other client is in a window it opened after its first one expired.
RejectedAtLimit ==
    \E ip, other \in Clients :
        /\ admission = [ip |-> ip, status |-> 429]
        /\ rateLimitMap[ip].count = 100
        /\ now <= rateLimitMap[ip].resetTime
        /\ rateLimitMap[other].count >= 1
        /\ rateLimitMap[other].resetTime > BootTime + RATE_WINDOW + 1

\* C5: submission idempotence: when a valid, unknown id is submitted twice in
\* sequence, the second response carries the same asset as the first, and the
\* registry holds exactly one entry for the id.
SubmissionIdempotent ==
    \A a, b \in Submits :
        /\ submit[a].pc = "done" /\ submit[b].pc = "done"
        /\ submit[a].emoteId = submit[b].emoteId
        /\ submit[a].res.message = "Emote added successfully"
        /\ submit[b].res.message = "Emote already in database"
        => /\ submit[b].res.emote = submit[a].res.emote
           /\ Cardinality(Known(submit[a].emoteId)) = 1

\* C6: a rejected submission leaves state unchanged: when the id is well formed
\* and unknown and the validator returns absent, the answer is a 400 and the
\* registry, the snapshot and lastCacheUpdate are as before.
RejectedSubmissionChangesNothing ==
    [][\A s \in Submits :
        /\ submit[s].pc = "validate"
        /\ submit'[s].pc = "done"
        /\ market[submit[s].emoteId] = "unavailable"
        => /\ submit'[s].res.status = 400
           /\ EMOTE_DATABASE' = EMOTE_DATABASE
           /\ emoteCache' = emoteCache
           /\ lastCacheUpdate' = lastCacheUpdate]_vars

\* C6 witness: a well-formed, unknown id has been rejected after validation.
SubmissionRejected ==
    \E s \in Submits :
        /\ submit[s].pc = "done"
        /\ submit[s].emoteId = NewId
        /\ submit[s].res.status = 400
        /\ Known(NewId) = {}

\* C7: the refresh result is the set difference: after a pass over the fixed
\* registry the snapshot holds exactly one asset for each candidate the
\* marketplace accepts, with that candidate's category, none for a candidate
\* it rejects, and nothing else.
RefreshIsSetDifference ==
    refresh[Boot].pc = "done" =>
        /\ \A k \in DOMAIN EMOTE_DATABASE :
              LET entry == EMOTE_DATABASE[k]
                  assets == {j \in DOMAIN emoteCache : emoteCache[j].id = entry.id}
              IN  IF market[entry.id] = "unavailable" THEN assets = {}
                  ELSE /\ Cardinality(assets) = 1
                       /\ \A j \in assets : emoteCache[j].category = entry.category
        /\ \A j \in DOMAIN emoteCache :
              \E k \in DOMAIN EMOTE_DATABASE : emoteCache[j].id = EMOTE_DATABASE[k].id

\* C7 witness: a pass has ended with some candidates accepted, the one of the
\* second batch among them, and some rejected.
RefreshDroppedSome ==
    /\ refresh[Boot].pc = "done"
    /\ market[Seeds[Len(Seeds)].id] # "unavailable"
    /\ \E id \in SeedIds : market[id] = "unavailable"
    /\ Len(emoteCache) >= 2
    /\ Len(emoteCache) < Len(EMOTE_DATABASE)

SameFilter(a, b) ==
    /\ a.category = b.category
    /\ a.limit = b.limit
    /\ a.resellable_only = b.resellable_only

\* C8 as stated: two answered queries with the same filter, both arrived with
\* the snapshot's age within the TTL and with no submission so far, carry the
\* same emotes and the same lastUpdated, the snapshot being empty or not.
QueryIdempotent ==
    \A q1, q2 \in Queries :
        /\ query[q1].pc = "done" /\ query[q2].pc = "done"
        /\ SameFilter(query[q1], query[q2])
        /\ ~query[q1].expired /\ ~query[q2].expired
        /\ \A s \in Submits : submit[s].pc = "idle"
        => /\ query[q1].res.emotes = query[q2].res.emotes
           /\ query[q1].res.lastUpdated = query[q2].res.lastUpdated

\* C8 as amended: a query that arrives when the snapshot is not empty and its
\* age is within the TTL answers at once with the filter of the snapshot and
\* with lastCacheUpdate, and writes neither; so two such queries with the same
\* filter, with no write of the snapshot between them, answer the same.
FreshQueryIdempotent ==
    [][\A q \in Queries :
        /\ query[q].pc = "idle"
        /\ query'[q].pc # "idle"
        /\ emoteCache # <<>>
        /\ now - lastCacheUpdate <= 300000
        => /\ query'[q].pc = "done"
           /\ query'[q].res = QueryResponse(emoteCache, lastCacheUpdate, query'[q])
           /\ emoteCache' = emoteCache
           /\ lastCacheUpdate' = lastCacheUpdate
           /\ EMOTE_DATABASE' = EMOTE_DATABASE
           /\ refresh' = refresh]_vars

\* C8 witness: two queries with the same filter arrived at a fresh, non-empty
\* snapshot and carry the same non-empty emotes and the same lastUpdated.
TwoFreshAnswersAgree ==
    \E q1, q2 \in Queries :
        /\ q1 # q2
        /\ query[q1].pc = "done" /\ query[q2].pc = "done"
        /\ refresh[q1].pc = "idle" /\ refresh[q2].pc = "idle"
        /\ SameFilter(query[q1], query[q2])
        /\ query[q1].res = query[q2].res
        /\ query[q1].res.emotes # <<>>

\* C9: non-positive limit: a query whose limit is 0 or a negative integer
\* answers with success and an empty emotes list.
NonPositiveLimits == {<<"0">>, <<"-", "1">>, <<"-", "2">>}

NonPositiveLimitIsEmpty ==
    \A q \in Queries :
        query[q].pc = "done" /\ query[q].limit \in NonPositiveLimits =>
            query[q].res.status = 200 /\ query[q].res.emotes = <<>>

\* C10: filter composition: for a limit n >= 1 the answer is the first
\* min(n, m) of the m snapshot assets, in snapshot order, whose category equals
\* the requested one up to case and, with resellable_only set, whose canResell
\* is true; an unknown category gives an empty list; the answer is a success.
SameUpToCase(a, b) ==
    Len(a) = Len(b) /\ \A k \in DOMAIN a : LowerChar(a[k]) = LowerChar(b[k])
CategoryGiven(q) == q.category # Undefined /\ q.category # <<>>
Matching(cache, q) ==
    SelectSeq(cache, LAMBDA e :
        /\ CategoryGiven(q) => SameUpToCase(e.category, q.category)
        /\ q.resellable_only = True => e.canResell)
PositiveLimit(limit) ==
    CASE limit = Undefined -> 50
      [] limit = <<"1">> -> 1
      [] limit = <<"2">> -> 2
      [] limit = <<"1", "0">> -> 10
      [] OTHER -> 0

FilterComposition ==
    \A q \in Queries :
        query[q].pc = "done" /\ PositiveLimit(query[q].limit) >= 1 =>
            LET m == Matching(emoteCache, query[q])
            IN  /\ query[q].res.status = 200
                /\ query[q].res.emotes =
                       SubSeq(m, 1, Min(PositiveLimit(query[q].limit), Len(m)))

\* C10 witness: category Dance with limit 1 on a snapshot of at least two Dance
\* assets has returned exactly one asset, of category Dance.
OneDanceOfSeveral ==
    \E q \in Queries :
        /\ query[q].pc = "done"
        /\ query[q].category = Dance
        /\ query[q].limit = <<"1">>
        /\ Len(SelectSeq(emoteCache, LAMBDA e : e.category = Dance)) >= 2
        /\ Len(query[q].res.emotes) = 1
        /\ query[q].res.emotes[1].category = Dance

HeldIn(cache, id) == {j \in DOMAIN cache : cache[j].id = id}

\* C11: registry safety under concurrent submissions: in every reachable
\* state, whatever the interleaving of the submissions, no two entries of the
\* registry have the same id and no two assets of the snapshot have the same
\* id.
NoDuplicateIds ==
    /\ \A j, k \in DOMAIN EMOTE_DATABASE :
          EMOTE_DATABASE[j].id = EMOTE_DATABASE[k].id => j = k
    /\ \A j, k \in DOMAIN emoteCache : emoteCache[j].id = emoteCache[k].id => j = k

\* C12: a successful submission extends without rebuilding: the step in which
\* the validator accepts a submitted id appends that id's entry to the
\* registry and its asset, with the submitted category, to the snapshot, keeps
\* every entry and asset there was, and keeps lastCacheUpdate.
SubmissionExtends ==
    [][\A s \in Submits :
        /\ submit[s].pc = "validate"
        /\ submit'[s].pc = "done"
        /\ market[submit[s].emoteId] # "unavailable"
        => /\ submit'[s].res.status = 200
           /\ EMOTE_DATABASE' = Append(EMOTE_DATABASE,
                   [id |-> submit[s].emoteId, category |-> submit[s].category])
           /\ emoteCache' = Append(emoteCache,
                   [id |-> submit[s].emoteId,
                    canResell |-> market[submit[s].emoteId] = "forSale",
                    category |-> submit[s].category])
           /\ submit'[s].res.emote = emoteCache'[Len(emoteCache')]
           /\ lastCacheUpdate' = lastCacheUpdate]_vars

\* C12 witness: a new id submitted with category Dance has been added behind
\* the seed entries and behind the assets of the initial load, whose time
\* lastCacheUpdate still is.
SubmittedDanceAdded ==
    \E s \in Submits :
        /\ submit[s].pc = "done"
        /\ submit[s].res.message = "Emote added successfully"
        /\ submit[s].category = Dance
        /\ refresh[Boot].pc = "done"
        /\ EMOTE_DATABASE = Append(Seeds, [id |-> NewId, category |-> Dance])
        /\ Len(emoteCache) >= 2
        /\ emoteCache[Len(emoteCache)] = submit[s].res.emote
        /\ emoteCache[Len(emoteCache)].category = Dance
        /\ emoteCache[1].id \in SeedIds
        /\ lastCacheUpdate >= BootTime

\* C13: the already-known submission result: a submission of an id that the
\* registry holds answers at once, without a validator call and without a
\* change of the registry, with that id's asset from the snapshot when the
\* snapshot holds one, and otherwise with no asset and a message of its own.
AlreadyKnownResult ==
    [][\A s \in Submits :
        /\ submit[s].pc = "idle"
        /\ submit'[s].pc # "idle"
        /\ Known(submit'[s].emoteId) # {}
        => LET held == HeldIn(emoteCache, submit'[s].emoteId)
           IN  /\ submit'[s].pc = "done"
               /\ EMOTE_DATABASE' = EMOTE_DATABASE
               /\ held # {} => \E j \in held : submit'[s].res.emote = emoteCache[j]
               /\ held = {} => /\ submit'[s].res.emote = Null
                               /\ submit'[s].res.message # "Emote already in database"]_vars

\* C14: upstream failure containment: however a validator call ends, it
\* yields an asset or null and never an exception, so that no pass fails, no
\* query answers 500, and a pass that ends installs an asset for every
\* candidate of its batches that the marketplace accepts, whatever became of
\* the other calls.
UpstreamFailureContained ==
    /\ [](/\ \A p \in Owners :
              /\ refresh[p].pc # "failed"
              /\ \A k \in DOMAIN refresh[p].results : refresh[p].results[k] # Thrown
          /\ \A q \in Queries : query[q].pc = "done" => query[q].res.status = 200)
    /\ [][\A p \in Owners :
            refresh[p].pc = "fetch" /\ refresh'[p].pc # "fetch" =>
                /\ refresh'[p].pc \in {"delay", "done"}
                /\ refresh'[p].pc = "done" =>
                      \A k \in 1 .. refresh[p].i + Len(refresh[p].batch) :
                          market[EMOTE_DATABASE[k].id] # "unavailable" =>
                              HeldIn(emoteCache', EMOTE_DATABASE[k].id) # {}]_vars

\* C14 witness: a query has answered 200 after its own pass, in which calls
\* failed and calls succeeded, and the snapshot holds the assets of the latter.
AnsweredDespiteFailures ==
    \E q \in Queries :
        /\ query[q].pc = "done"
        /\ refresh[q].pc = "done"
        /\ query[q].res.status = 200
        /\ \E id \in SeedIds : market[id] = "unavailable"
        /\ \E id \in SeedIds : market[id] = "forSale" /\ HeldIn(emoteCache, id) # {}
        /\ query[q].res.cached >= 2

\* C15: the snapshot is within the registry: in every reachable state every
\* asset of the snapshot has the id of some registry entry, and every step
\* keeps the registry's entries, in their order, at the head of the registry.
SnapshotWithinRegistry ==
    /\ [](\A j \in DOMAIN emoteCache : Known(emoteCache[j].id) # {})
    /\ [][IsPrefix(EMOTE_DATABASE, EMOTE_DATABASE')]_vars

\* C15 witness: the registry has grown by a submitted id, and a pass begun by
\* a query has since installed a snapshot with that id's asset and a seed's.
SubmittedThenRefreshed ==
    \E q \in Queries :
        /\ refresh[q].pc = "done"
        /\ Len(EMOTE_DATABASE) > Len(Seeds)
        /\ IsPrefix(Seeds, EMOTE_DATABASE)
        /\ HeldIn(emoteCache, NewId) # {}
        /\ \E id \in SeedIds : HeldIn(emoteCache, id) # {}
        /\ lastCacheUpdate > BootTime

\* C16: the batch barrier and ordering of a pass: a group is at most 5
\* consecutive registry entries, the groups follow each other in registry
\* order, a group starts only when no call of the one before is out, so at
\* most 5 calls of a pass are out; the pass delays after a group exactly when
\* entries are left, and ends without a delay after the last group.
BatchBarrier ==
    /\ [](\A p \in Owners :
            LET r == refresh[p]
            IN  /\ Len(r.batch) <= 5
                /\ Cardinality(PendingCalls(p)) <= 5
                /\ r.pc \in {"fetch", "delay"} =>
                      /\ r.i % 5 = 0
                      /\ r.batch # <<>>
                      /\ r.batch = SubSeq(EMOTE_DATABASE, r.i + 1, r.i + Len(r.batch))
                      /\ Len(r.batch) < 5 => r.i + Len(r.batch) = Len(EMOTE_DATABASE)
                /\ r.pc = "delay" => PendingCalls(p) = {})
    /\ [][\A p \in Owners :
            LET r == refresh[p]
            IN  /\ refresh'[p].pc = "fetch" /\ refresh'[p].batch # r.batch =>
                      \/ r.pc = "idle" /\ refresh'[p].i = 0
                      \/ /\ r.pc = "delay"
                         /\ PendingCalls(p) = {}
                         /\ refresh'[p].i = r.i + 5
                /\ r.pc = "fetch" /\ refresh'[p].pc = "delay" =>
                      r.i + 5 < Len(EMOTE_DATABASE)
                /\ r.pc = "fetch" /\ refresh'[p].pc = "done" =>
                      r.i + 5 >= Len(EMOTE_DATABASE)
                /\ r.pc = "delay" => refresh'[p].pc \in {"delay", "fetch"}]_vars

\* C16 witness: the calls of the first group are all in, with assets among
\* them, and the one call of the second group is out.
SecondGroupInFlight ==
    /\ refresh[Boot].pc = "fetch"
    /\ refresh[Boot].i = 5
    /\ PendingCalls(Boot) # {}
    /\ refresh[Boot].validEmotes # <<>>
    /\ emoteCache = <<>>

\* C17: a rejection does not touch the window: a request of a client whose
\* count is 100 in a window that has not expired is rejected and leaves the
\* client's count and resetTime as they were, and no request of a client
\* changes the entry of another client.
RejectionKeepsWindow ==
    [][\A ip \in Clients :
        Requested(ip) =>
            /\ \A other \in Clients \ {ip} : rateLimitMap'[other] = rateLimitMap[other]
            /\ rateLimitMap[ip].count = 100 /\ now <= rateLimitMap[ip].resetTime =>
                  /\ admission'.status = 429
                  /\ rateLimitMap'[ip] = rateLimitMap[ip]
            /\ admission'.status = 429 => rateLimitMap' = rateLimitMap]_vars

\* C17 witness: a client has been rejected in the last millisecond of the
\* window it opened at the start, which still stands with count 100, and the
\* other client's window, opened later, holds fewer requests.
RejectedAtWindowEnd ==
    \E ip, other \in Clients :
        /\ admission = [ip |-> ip, status |-> 429]
        /\ rateLimitMap[ip] = [count |-> 100, resetTime |-> BootTime + RATE_WINDOW]
        /\ now = BootTime + RATE_WINDOW
        /\ rateLimitMap[other].count \in 1 .. 99
        /\ rateLimitMap[other].resetTime > rateLimitMap[ip].resetTime

\* C18: refresh determinism: the set of assets a pass installs is fixed by
\* the candidate list and the marketplace's answer for each id, whatever the
\* order in which the calls of a group end and whatever time the pass takes.
ExpectedAssets ==
    {[id |-> Seeds[k].id, canResell |-> market[Seeds[k].id] = "forSale",
      category |-> Seeds[k].category] :
        k \in {j \in DOMAIN Seeds : market[Seeds[j].id] # "unavailable"}}

RefreshDeterministic ==
    refresh[Boot].pc = "done" =>
        {emoteCache[j] : j \in DOMAIN emoteCache} = ExpectedAssets

\* C18 witness: a pass that the clock moved under has installed assets of
\* both groups, a limited one among them.
BothGroupsInstalled ==
    /\ refresh[Boot].pc = "done"
    /\ now > BootTime
    /\ HeldIn(emoteCache, Seeds[1].id) # {}
    /\ HeldIn(emoteCache, Seeds[Len(Seeds)].id) # {}
    /\ \E j \in DOMAIN emoteCache : ~emoteCache[j].canResell

\* C19: a submission is not lost to a pass in flight: the swap of a pass
\* keeps in the snapshot every asset whose id the marketplace still accepts,
\* that of a submission accepted while the pass was in progress included.
SwapKeepsAccepted ==
    [][\A p \in Owners :
        refresh[p].pc = "fetch" /\ refresh'[p].pc = "done" =>
            \A j \in DOMAIN emoteCache :
                market[emoteCache[j].id] # "unavailable" =>
                    HeldIn(emoteCache', emoteCache[j].id) # {}]_vars

\* C20: a refresh runs to completion: when every call that is out returns in
\* the end and every timer fires, a pass that has started ends, which installs
\* its snapshot and sets lastCacheUpdate, and a query that awaits a pass
\* answers; and no step lowers lastCacheUpdate.
RefreshCompletes ==
    /\ \A p \in Owners : Refreshing(p) ~> refresh[p].pc = "done"
    /\ \A q \in Queries :
          query[q].pc = "refreshing" ~>
              (query[q].pc = "done" /\ query[q].res.lastUpdated >= BootTime)
    /\ [][/\ lastCacheUpdate' >= lastCacheUpdate
          /\ \A p \in Owners :
                Refreshing(p) /\ refresh'[p].pc = "done" =>
                    /\ lastCacheUpdate' = now
                    /\ IsPrefix(refresh[p].validEmotes, emoteCache')]_vars

\* C20 witness: a query found the snapshot of the initial load expired and
\* has answered after its own pass, which ran over a registry that a
\* submission had extended and moved lastCacheUpdate forward.
AwaitedPassEnded ==
    /\ query[1].pc = "done"
    /\ query[1].expired
    /\ refresh[1].pc = "done"
    /\ refresh[Boot].pc = "done"
    /\ Len(EMOTE_DATABASE) > Len(Seeds)
    /\ query[1].res.lastUpdated = lastCacheUpdate
    /\ lastCacheUpdate > BootTime + CACHE_DURATION

=============================================================================
